---- MODULE Spec2Model ----
(***************************************************************************)
(* Model of the globe's boundary overlay, src/components/Toggle.tsx:       *)
(* CountryOutlines (lines 337-425) with the continent palette (315-325)    *)
(* and latLngToVector3 (328-335).                                          *)
(*                                                                         *)
(* The effect of CountryOutlines starts one fetch; the promise chain       *)
(*   fetch -> res.json() -> build -> setGeometry, with .catch at the end,  *)
(* is modelled with one position variable pc.  The build callback is       *)
(* synchronous: its loops are stepped one iteration at a time, the locals  *)
(* of the code (points, colors, continentColor, i, minY, maxY, lat,        *)
(* intersections) being variables, and nothing else can run between two    *)
(* of its steps (Unmount is enabled at the asynchronous points only).      *)
(*                                                                         *)
(* Numbers.  Coordinates are integers (degrees).  A crossing longitude is  *)
(* an exact fraction <<n, d>> in lowest terms, d > 0.  A radius is held in *)
(* hundredths.  A colour channel is the byte of the hex literal; a value   *)
(* pushed to the colour buffer is held in tenths of that byte, so full     *)
(* intensity is 10 * byte and 30% is 3 * byte.  A THREE.Vector3 made by    *)
(* latLngToVector3 is held as the triple it was made from.                 *)
(***************************************************************************)
EXTENDS Integers, Sequences, FiniteSets

(***************************************************************************)
(* Bounds of the model.                                                    *)
(***************************************************************************)
MaxRingLen == 3
MaxFeatures == 3

Lngs == {0, 1}
Lats == {0 - 1, 0, 2, 3}
\* gridStep is the constant 2.0 in the source (line 372); the tessellator's
\* contract takes it as a parameter, so the model also runs the same code
\* with the step 5 of the documented scenario.
GridSteps == {2, 5}

(***************************************************************************)
(* Numbers                                                                 *)
(***************************************************************************)
NotANumber == 0 - 1

Abs(x) == IF x < 0 THEN 0 - x ELSE x

RECURSIVE Gcd(_, _)
Gcd(a, b) == IF b = 0 THEN a ELSE Gcd(b, a % b)

\* the fraction n / d (d # 0) in lowest terms with a positive denominator
Frac(n, d) ==
  LET g == Gcd(Abs(n), Abs(d))
      s == IF d < 0 THEN 0 - 1 ELSE 1
  IN  <<(s * n) \div g, (s * d) \div g>>

FracOfInt(n) == <<n, 1>>

FracLess(a, b) == a[1] * b[2] < b[1] * a[2]

\* Math.ceil(a / b) for b > 0
CeilDiv(a, b) == 0 - ((0 - a) \div b)

(***************************************************************************)
(* Continent palette                                                       *)
(***************************************************************************)
GLOBE_RADIUS == 2

SevenContinents ==
  {"Africa", "Asia", "Europe", "North America", "South America", "Oceania",
   "Antarctica"}

CONTINENT_COLORS ==
  [c \in SevenContinents |->
     CASE c = "Africa"        -> <<255, 136, 0>>
       [] c = "Asia"          -> <<0, 242, 255>>
       [] c = "Europe"        -> <<0, 255, 0>>
       [] c = "North America" -> <<255, 0, 255>>
       [] c = "South America" -> <<255, 255, 0>>
       [] c = "Oceania"       -> <<255, 0, 136>>
       [] c = "Antarctica"    -> <<255, 255, 255>>]

DEFAULT_COLOR == <<68, 68, 68>>

\* CONTINENT_COLORS is an object literal: a property read that misses its own
\* keys goes on to Object.prototype, whose members are functions (truthy,
\* without r, g, b).
ObjectPrototypeKeys == {"constructor", "toString", "valueOf", "hasOwnProperty"}

Undefined == <<>>
InheritedMember == <<NotANumber, NotANumber, NotANumber>>

\* CONTINENT_COLORS[continent]
PropertyRead(name) ==
  IF name \in SevenContinents THEN CONTINENT_COLORS[name]
  ELSE IF name \in ObjectPrototypeKeys THEN InheritedMember
  ELSE Undefined

\* properties.CONTINENT || properties.continent || 'Unknown'   ("" is falsy,
\* and stands for an absent property too)
ContinentName(feature) ==
  IF feature.CONTINENT # "" THEN feature.CONTINENT
  ELSE IF feature.continent # "" THEN feature.continent
  ELSE "Unknown"

\* CONTINENT_COLORS[continent] || DEFAULT_COLOR
ResolveColor(name) ==
  IF PropertyRead(name) # Undefined THEN PropertyRead(name) ELSE DEFAULT_COLOR

\* value pushed for one channel at full intensity, and at 30%
Full(x) == IF x = NotANumber THEN NotANumber ELSE 10 * x
Dim(x) == IF x = NotANumber THEN NotANumber ELSE 3 * x

OutlineColors(c) ==
  <<Full(c[1]), Full(c[2]), Full(c[3]), Full(c[1]), Full(c[2]), Full(c[3])>>

\* a slip: one colour for the two points of a chord
GridColors_OneVertex(c) == <<Dim(c[1]), Dim(c[2]), Dim(c[3])>>

GridColors(c) ==
  <<Dim(c[1]), Dim(c[2]), Dim(c[3]), Dim(c[1]), Dim(c[2]), Dim(c[3])>>

(***************************************************************************)
(* Projection                                                              *)
(***************************************************************************)
OutlineRadius == 100 * GLOBE_RADIUS + 2
GridRadius == 100 * GLOBE_RADIUS + 1

\* a slip: unshift for push
Push_Unshift(buffer, values) == values \o buffer

\* points.push(p1, p2) and colors.push(...): the values go to the end
Push(buffer, values) == buffer \o values

\* latLngToVector3(lat, lng, radius), lng a fraction
latLngToVector3(lat, lng, radius) == [lat |-> lat, lng |-> lng, radius |-> radius]

(***************************************************************************)
(* Scanline tessellator: the pure parts of addLines                        *)
(***************************************************************************)
\* a vertex is <<lng, lat>>, as in the dataset
LngOf(v) == v[1]
LatOf(v) == v[2]

\* a slip: the vertex on the line goes to the upper side
Crosses_UpperSide(lat1, lat2, lat) ==
  (lat1 < lat /\ lat2 >= lat) \/ (lat2 < lat /\ lat1 >= lat)

\* the crossing test of line 378
Crosses(lat1, lat2, lat) ==
  (lat1 <= lat /\ lat2 > lat) \/ (lat2 <= lat /\ lat1 > lat)

\* line 379: lng1 + (lat - lat1) * (lng2 - lng1) / (lat2 - lat1)
Interpolate(lng1, lat1, lng2, lat2, lat) ==
  Frac(lng1 * (lat2 - lat1) + (lat - lat1) * (lng2 - lng1), lat2 - lat1)

\* a slip: the loop stops one edge early
OutlineLoopRuns_SkipLast(polygon, idx) == idx < Len(polygon) - 2

\* the loop bounds of lines 358 and 375: i < polygon.length - 1
OutlineLoopRuns(polygon, idx) == idx < Len(polygon) - 1
CrossingLoopRuns(polygon, idx) == idx < Len(polygon) - 1

\* lines 374-382: the crossings of the line at lat, in edge order, from edge idx
RECURSIVE CrossingsFrom(_, _, _)
CrossingsFrom(polygon, atLat, idx) ==
  IF ~CrossingLoopRuns(polygon, idx) THEN <<>>
  ELSE LET a == polygon[idx + 1]
           b == polygon[idx + 2]
       IN  (IF Crosses(LatOf(a), LatOf(b), atLat)
            THEN <<Interpolate(LngOf(a), LatOf(a), LngOf(b), LatOf(b), atLat)>>
            ELSE <<>>)
           \o CrossingsFrom(polygon, atLat, idx + 1)

\* intersections.sort((a, b) => a - b): ascending
RECURSIVE InsertSorted(_, _)
InsertSorted(x, s) ==
  IF s = <<>> THEN <<x>>
  ELSE IF FracLess(x, Head(s)) THEN <<x>> \o s
  ELSE <<Head(s)>> \o InsertSorted(x, Tail(s))

\* a slip: the crossings are left in edge order
SortAscending_Unsorted(s) == s

RECURSIVE SortAscending(_)
SortAscending(s) ==
  IF s = <<>> THEN <<>> ELSE InsertSorted(s[Len(s)], SortAscending(SubSeq(s, 1, Len(s) - 1)))

\* lines 366-370: the scan for the bounding box, from the initial values
RECURSIVE BoundsScan(_, _, _)
BoundsScan(polygon, idx, box) ==
  IF idx > Len(polygon) THEN box
  ELSE LET lng == LngOf(polygon[idx])
           la == LatOf(polygon[idx])
       IN  BoundsScan(polygon, idx + 1,
             [minX |-> IF lng < box.minX THEN lng ELSE box.minX,
              maxX |-> IF lng > box.maxX THEN lng ELSE box.maxX,
              minY |-> IF la < box.minY THEN la ELSE box.minY,
              maxY |-> IF la > box.maxY THEN la ELSE box.maxY])

InitialBox == [minX |-> 180, maxX |-> 0 - 180, minY |-> 90, maxY |-> 0 - 90]

\* a slip: the first line is not snapped to the grid
FirstLat_Unsnapped(low, step) == low

\* a slip: the line advances by one degree
NextLat_ByOne(cur, step) == cur + 1

\* line 373: Math.ceil(minY / gridStep) * gridStep, and lat += gridStep
FirstLat(low, step) == CeilDiv(low, step) * step
NextLat(cur, step) == cur + step

(***************************************************************************)
(* Datasets: the parsed feature collections the fetch can deliver          *)
(***************************************************************************)
\* A feature holds what the build reads of it.  `coordinates` is a sequence
\* of polygons, each a sequence of rings: for a MultiPolygon it is
\* geometry.coordinates, for a Polygon it has geometry.coordinates as its
\* only entry.
PolygonFeature(rings, upper, lower) ==
  [hasGeometry |-> TRUE, type |-> "Polygon", hasCoordinates |-> TRUE,
   coordinates |-> <<rings>>, CONTINENT |-> upper, continent |-> lower]

MultiPolygonFeature(polys, upper, lower) ==
  [hasGeometry |-> TRUE, type |-> "MultiPolygon", hasCoordinates |-> TRUE,
   coordinates |-> polys, CONTINENT |-> upper, continent |-> lower]

NoGeometryFeature ==
  [hasGeometry |-> FALSE, type |-> "", hasCoordinates |-> FALSE,
   coordinates |-> <<>>, CONTINENT |-> "Asia", continent |-> ""]

NoCoordinatesFeature ==
  [hasGeometry |-> TRUE, type |-> "Polygon", hasCoordinates |-> FALSE,
   coordinates |-> <<>>, CONTINENT |-> "Asia", continent |-> ""]

PointFeature ==
  [hasGeometry |-> TRUE, type |-> "Point", hasCoordinates |-> TRUE,
   coordinates |-> <<>>, CONTINENT |-> "Oceania", continent |-> ""]

Square == << <<0, 0>>, <<10, 0>>, <<10, 10>>, <<0, 10>> >>
ClosedTriangle == << <<0, 0>>, <<4, 0>>, <<2, 4>>, <<0, 0>> >>
Ring3 == << <<0, 2>>, <<1, 0 - 1>>, <<3, 2>> >>
Ring2 == << <<5, 1>>, <<6, 1>> >>
Zigzag4 == << <<3, 3>>, <<2, 0>>, <<1, 3>>, <<0, 0>> >>
Zigzag5 == << <<4, 0>>, <<3, 3>>, <<2, 0>>, <<1, 3>>, <<0, 0>> >>

TwoPolygons == MultiPolygonFeature(<< <<Ring3>>, <<Ring2>> >>, "Asia", "")

FeaturePool ==
  { PolygonFeature(<<ClosedTriangle>>, "Africa", ""),
    TwoPolygons,
    PolygonFeature(<<Ring2>>, "", ""),
    NoGeometryFeature,
    NoCoordinatesFeature,
    PointFeature }

Names == SevenContinents \cup {"", "Unknown", "Atlantis", "constructor"}

Verts == Lngs \X Lats
RingFamily == UNION {[1..n -> Verts] : n \in 0..MaxRingLen}

Datasets ==
  UNION {[1..n -> FeaturePool] : n \in 0..MaxFeatures}
  \cup {<<PolygonFeature(<<r>>, "", "Asia")>> : r \in RingFamily}
  \cup {<<PolygonFeature(<<Ring2>>, a, b)>> : a \in Names, b \in Names}
  \cup {<<PolygonFeature(<<Square>>, "Europe", "")>>}
  \cup {<<PolygonFeature(<<Zigzag4, Zigzag5>>, "Oceania", "")>>}

(***************************************************************************)
(* State                                                                   *)
(***************************************************************************)
VARIABLES
  mounted,         \* the CountryOutlines instance is mounted
  pc,              \* position in the promise chain and in the build callback
  data,            \* data.features, as res.json() delivers it
  gridStep,        \* line 372
  geometry,        \* the useState value of line 338 (Null: absent)
  logged,          \* the errors console.error was called with (line 409)
  points, colors,  \* lines 344-345
  f,               \* position of data.features.forEach (1-based)
  continentColor,  \* line 354
  m, r,            \* positions of the forEach loops of lines 397-401 (1-based)
  i,               \* loop counter of the outline pass and of the pairing loop
  minX, maxX, minY, maxY,   \* line 366
  lat,             \* loop variable of line 373
  intersections    \* line 374

\* The globe scene: CyberGlobe (lines 427-524), IntroCamera (526-545) and
\* GlobeView (547-576).  Scene values are held in millionths.
VARIABLES
  clock,             \* clock.getElapsedTime(), in seconds
  active,            \* the prop active (App.tsx: viewMode === 'globe')
  selectedPos,       \* the prop selectedPos is not null
  groupRotation,     \* groupRef.current.rotation: [x, y, z]
  emissiveIntensity, \* mainRef.current.material.emissiveIntensity
  ringRotation,      \* ringRef.current.rotation: [x, z]
  glowScale,         \* glowRef.current.scale
  cameraZ,           \* camera.position.z
  introFinished,     \* the ref of line 528
  introDone,         \* the state of line 548
  introEndCalls,     \* number of calls of onIntroEnd (line 540)
  frames             \* number of runs of CyberGlobe's frame callback

\* The map's zoom buttons: CustomZoomControls (lines 104-144).
VARIABLES
  zoom,              \* map.getZoom(), in thousandths
  animationRef,      \* animationRef.current (0: null)
  pending,           \* the callbacks requestAnimationFrame holds
  nextHandle,        \* the handle the next requestAnimationFrame returns
  now,               \* performance.now(), in steps of 250 ms
  clicks,            \* number of calls of performSmoothZoom
  lastRun            \* the run of animate that came last: whose, and how far

scene ==
  <<clock, active, selectedPos, groupRotation, emissiveIntensity, ringRotation,
    glowScale, cameraZ, introFinished, introDone, introEndCalls, frames>>

zoomControls == <<zoom, animationRef, pending, nextHandle, now, clicks, lastRun>>

outlines ==
  <<mounted, pc, data, gridStep, geometry, logged, points, colors, f,
    continentColor, m, r, i, minX, maxX, minY, maxY, lat, intersections>>

vars == <<outlines, scene, zoomControls>>

locals == <<continentColor, m, r, i, minX, maxX, minY, maxY, lat, intersections>>
ringLocals == <<i, minX, maxX, minY, maxY, lat, intersections>>
gridLocals == <<minX, maxX, minY, maxY, lat, intersections>>
component == <<mounted, geometry, logged>>
input == <<data, gridStep>>

Null == [points |-> <<>>, colors |-> <<>>, present |-> FALSE]

\* the scene as GlobeView mounts it (JSX of lines 469-522 and 557; App.tsx
\* lines 9-11: the globe is in front, nothing is selected)
SceneMounted ==
  /\ clock = 0
  /\ active = TRUE
  /\ selectedPos = FALSE
  /\ groupRotation = [x |-> 0, y |-> 0, z |-> 0]
  /\ emissiveIntensity = 1000000
  /\ ringRotation = [x |-> 0, z |-> 0]
  /\ glowScale = 1000000
  /\ cameraZ = 20000000
  /\ introFinished = FALSE
  /\ introDone = FALSE
  /\ introEndCalls = 0
  /\ frames = 0

\* the zoom buttons as MapView mounts them (line 106: the ref holds null)
ZoomControlsMounted ==
  /\ animationRef = 0
  /\ pending = {}
  /\ nextHandle = 1
  /\ now = 0
  /\ clicks = 0
  /\ lastRun = [chain |-> 0, targetZoom |-> 0, progress |-> 0]

\* the map as MapView mounts it (line 185: zoom={2})
ZoomMounted ==
  /\ zoom = 2000
  /\ ZoomControlsMounted

\* the values of the locals before they are assigned: never read
OutlinesMounted ==
  /\ mounted = TRUE
  /\ pc = "fetch"
  /\ geometry = Null
  /\ logged = <<>>
  /\ points = <<>>
  /\ colors = <<>>
  /\ f = 1
  /\ continentColor = DEFAULT_COLOR
  /\ m = 1
  /\ r = 1
  /\ i = 0
  /\ minX = InitialBox.minX
  /\ maxX = InitialBox.maxX
  /\ minY = InitialBox.minY
  /\ maxY = InitialBox.maxY
  /\ lat = 0
  /\ intersections = <<>>

Init ==
  /\ data \in Datasets
  /\ gridStep \in GridSteps
  /\ OutlinesMounted
  /\ SceneMounted
  /\ ZoomMounted

feature == data[f]
polygon == data[f].coordinates[m][r]

(***************************************************************************)
(* The promise chain of lines 341-409                                      *)
(***************************************************************************)
\* a slip: the handler shows an empty overlay
Catch_SetsEmpty(err) ==
  /\ pc' = "caught"
  /\ logged' = Append(logged, err)
  /\ geometry' = [points |-> <<>>, colors |-> <<>>, present |-> TRUE]
  /\ UNCHANGED mounted

\* .catch((err) => console.error(...)): the chain ends, geometry is untouched
Catch(err) ==
  /\ pc' = "caught"
  /\ logged' = Append(logged, err)
  /\ UNCHANGED <<mounted, geometry>>

\* fetch(...) resolves: res.json() starts
FetchResolve ==
  /\ pc = "fetch"
  /\ pc' = "json"
  /\ UNCHANGED <<component, input, scene, zoomControls, points, colors, f, locals>>

\* fetch(...) rejects (network error)
FetchReject ==
  /\ pc = "fetch"
  /\ Catch("network")
  /\ UNCHANGED <<input, scene, zoomControls, points, colors, f, locals>>

\* res.json() rejects (parse error)
JsonReject ==
  /\ pc = "json"
  /\ Catch("parse")
  /\ UNCHANGED <<input, scene, zoomControls, points, colors, f, locals>>

\* res.json() resolves: the build callback starts (lines 344-347)
JsonResolve ==
  /\ pc = "json"
  /\ pc' = "forEach"
  /\ points' = <<>>
  /\ colors' = <<>>
  /\ f' = 1
  /\ UNCHANGED <<component, input, scene, zoomControls, locals>>

\* the view unmounts; the effect of line 340 returns no cleanup function
Unmount ==
  /\ mounted
  /\ pc \in {"fetch", "json", "done", "caught"}
  /\ mounted' = FALSE
  /\ UNCHANGED <<pc, geometry, logged, input, scene, zoomControls, points, colors, f, locals>>

(***************************************************************************)
(* The build callback of lines 343-408, one loop iteration per step        *)
(***************************************************************************)
\* what makes the body of the forEach callback throw a TypeError:
\* geo.type on an absent geometry (line 349), coords.forEach on absent
\* coordinates (lines 397, 399)
Throws(feat) ==
  \/ ~feat.hasGeometry
  \/ feat.type \in {"Polygon", "MultiPolygon"} /\ ~feat.hasCoordinates

\* lines 405-407, after the forEach has visited every feature.  The call of
\* setGeometry is modelled as the code makes it: nothing in the callback
\* reads whether the component is still mounted.
SetGeometry ==
  /\ pc = "forEach"
  /\ f > Len(data)
  /\ geometry' = [points |-> points, colors |-> colors, present |-> TRUE]
  /\ pc' = "done"
  /\ UNCHANGED <<mounted, logged, input, scene, zoomControls, points, colors, f, locals>>

\* lines 348-350, 397, 399: the callback throws, the chain goes to .catch
FeatureThrows ==
  /\ pc = "forEach"
  /\ f <= Len(data)
  /\ Throws(feature)
  /\ Catch("TypeError")
  /\ UNCHANGED <<input, scene, zoomControls, points, colors, f, locals>>

\* lines 348-354 and 396-401 for a Polygon or a MultiPolygon
FeatureStart ==
  /\ pc = "forEach"
  /\ f <= Len(data)
  /\ ~Throws(feature)
  /\ feature.type \in {"Polygon", "MultiPolygon"}
  /\ continentColor' = ResolveColor(ContinentName(feature))
  /\ m' = 1
  /\ r' = 1
  /\ pc' = "rings"
  /\ UNCHANGED <<component, input, scene, zoomControls, points, colors, f, ringLocals>>

\* lines 348-354 and 396-402 for any other geometry type: nothing is added
FeatureOtherType ==
  /\ pc = "forEach"
  /\ f <= Len(data)
  /\ ~Throws(feature)
  /\ feature.type \notin {"Polygon", "MultiPolygon"}
  /\ continentColor' = ResolveColor(ContinentName(feature))
  /\ f' = f + 1
  /\ UNCHANGED <<component, input, scene, zoomControls, pc, points, colors, m, r, ringLocals>>

\* the outer forEach of line 397 / 399 is over: on to the next feature
FeatureEnd ==
  /\ pc = "rings"
  /\ m > Len(feature.coordinates)
  /\ f' = f + 1
  /\ pc' = "forEach"
  /\ UNCHANGED <<component, input, scene, zoomControls, points, colors, locals>>

\* the inner forEach of line 400 is over: on to the next polygon
PolygonEnd ==
  /\ pc = "rings"
  /\ m <= Len(feature.coordinates)
  /\ r > Len(feature.coordinates[m])
  /\ m' = m + 1
  /\ r' = 1
  /\ UNCHANGED <<component, input, scene, zoomControls, pc, points, colors, f, continentColor, ringLocals>>

\* addLines(polygon) is called (lines 397, 400; line 358 initialises i)
AddLines ==
  /\ pc = "rings"
  /\ m <= Len(feature.coordinates)
  /\ r <= Len(feature.coordinates[m])
  /\ i' = 0
  /\ pc' = "outline"
  /\ UNCHANGED <<component, input, scene, zoomControls, points, colors, f, continentColor, m, r, gridLocals>>

\* lines 359-362: one iteration of the outline loop
OutlineSegment ==
  /\ pc = "outline"
  /\ OutlineLoopRuns(polygon, i)
  /\ points' = Push(points,
       << latLngToVector3(LatOf(polygon[i + 1]), FracOfInt(LngOf(polygon[i + 1])), OutlineRadius),
          latLngToVector3(LatOf(polygon[i + 2]), FracOfInt(LngOf(polygon[i + 2])), OutlineRadius) >>)
  /\ colors' = Push(colors, OutlineColors(continentColor))
  /\ i' = i + 1
  /\ UNCHANGED <<component, input, scene, zoomControls, pc, f, continentColor, m, r, gridLocals>>

\* lines 366-373: the outline loop is over; bounding box and first grid line
Bounds ==
  /\ pc = "outline"
  /\ ~OutlineLoopRuns(polygon, i)
  /\ LET box == BoundsScan(polygon, 1, InitialBox)
     IN  /\ minX' = box.minX
         /\ maxX' = box.maxX
         /\ minY' = box.minY
         /\ maxY' = box.maxY
         /\ lat' = FirstLat(box.minY, gridStep)
  /\ pc' = "grid"
  /\ UNCHANGED <<component, input, scene, zoomControls, points, colors, f, continentColor, m, r, i, intersections>>

\* lines 374-384: one grid line: collect the crossings, sort them
GridLine ==
  /\ pc = "grid"
  /\ lat <= maxY
  /\ intersections' = SortAscending(CrossingsFrom(polygon, lat, 0))
  /\ i' = 0
  /\ pc' = "pairs"
  /\ UNCHANGED <<component, input, scene, zoomControls, points, colors, f, continentColor, m, r,
                 minX, maxX, minY, maxY, lat>>

\* line 373: the grid loop is over, addLines returns
AddLinesReturn ==
  /\ pc = "grid"
  /\ ~(lat <= maxY)
  /\ r' = r + 1
  /\ pc' = "rings"
  /\ UNCHANGED <<component, input, scene, zoomControls, points, colors, f, continentColor, m, ringLocals>>

\* lines 385-391: a complete pair becomes one chord
PairSegment ==
  /\ pc = "pairs"
  /\ i < Len(intersections)
  /\ i + 2 <= Len(intersections)
  /\ points' = Push(points,
       << latLngToVector3(lat, intersections[i + 1], GridRadius),
          latLngToVector3(lat, intersections[i + 2], GridRadius) >>)
  /\ colors' = Push(colors, GridColors(continentColor))
  /\ i' = i + 2
  /\ UNCHANGED <<component, input, scene, zoomControls, pc, f, continentColor, m, r, gridLocals>>

\* line 385: intersections[i+1] is undefined, nothing is added
PairDropped ==
  /\ pc = "pairs"
  /\ i < Len(intersections)
  /\ ~(i + 2 <= Len(intersections))
  /\ i' = i + 2
  /\ UNCHANGED <<component, input, scene, zoomControls, pc, points, colors, f, continentColor, m, r, gridLocals>>

\* line 384 ends, line 373 steps: lat += gridStep
NextGridLine ==
  /\ pc = "pairs"
  /\ ~(i < Len(intersections))
  /\ lat' = NextLat(lat, gridStep)
  /\ pc' = "grid"
  /\ UNCHANGED <<component, input, scene, zoomControls, points, colors, f, continentColor, m, r, i,
                 minX, maxX, minY, maxY, intersections>>

Next ==
  \/ FetchResolve \/ FetchReject \/ JsonResolve \/ JsonReject \/ Unmount
  \/ SetGeometry \/ FeatureThrows \/ FeatureStart \/ FeatureOtherType
  \/ FeatureEnd \/ PolygonEnd \/ AddLines
  \/ OutlineSegment \/ Bounds \/ GridLine \/ AddLinesReturn
  \/ PairSegment \/ PairDropped \/ NextGridLine

Spec == Init /\ [][Next]_vars

(***************************************************************************)
(* Vocabulary of the properties                                            *)
(***************************************************************************)
IsOutline(p) == p.radius = OutlineRadius
IsGrid(p) == p.radius = GridRadius

CountOutline(buffer) == Cardinality({n \in 1..Len(buffer) : IsOutline(buffer[n])})
CountGrid(buffer) == Cardinality({n \in 1..Len(buffer) : IsGrid(buffer[n])})

\* a feature the claims call malformed, and one the build draws
Malformed(feat) == ~feat.hasGeometry \/ ~feat.hasCoordinates
Drawn(feat) == ~Malformed(feat) /\ feat.type \in {"Polygon", "MultiPolygon"}

\* max(ring.length - 1, 0), summed over the rings of the drawn features
RingEdges(ring) == IF Len(ring) - 1 > 0 THEN Len(ring) - 1 ELSE 0

RECURSIVE EdgesOfRings(_)
EdgesOfRings(rings) ==
  IF rings = <<>> THEN 0 ELSE RingEdges(Head(rings)) + EdgesOfRings(Tail(rings))

RECURSIVE EdgesOfPolygons(_)
EdgesOfPolygons(polys) ==
  IF polys = <<>> THEN 0 ELSE EdgesOfRings(Head(polys)) + EdgesOfPolygons(Tail(polys))

RECURSIVE EdgesOfFeatures(_)
EdgesOfFeatures(features) ==
  IF features = <<>> THEN 0
  ELSE (IF Drawn(Head(features)) THEN EdgesOfPolygons(Head(features).coordinates) ELSE 0)
       + EdgesOfFeatures(Tail(features))

\* the chain has delivered the data and the build callback has run to its end,
\* normally or by an exception
BuildEnded == pc = "done" \/ (pc = "caught" /\ logged = <<"TypeError">>)

SingleRing ==
  /\ Len(data) = 1
  /\ Drawn(data[1])
  /\ Len(data[1].coordinates) = 1
  /\ Len(data[1].coordinates[1]) = 1

TheRing == data[1].coordinates[1][1]

(***************************************************************************)
(* C1.  A malformed feature (no geometry, or no geometry.coordinates) is   *)
(* skipped and does not abort the build: whenever the build has ended, the *)
(* geometry is set and holds the outline segments of every well-formed     *)
(* feature of the list.                                                    *)
(***************************************************************************)
C1_MalformedFeatureSkipped ==
  BuildEnded =>
    /\ geometry.present
    /\ CountOutline(geometry.points) = 2 * EdgesOfFeatures(data)

(***************************************************************************)
(* C2.  After the view has unmounted, the geometry state is never set: no  *)
(* step taken while the component is unmounted changes geometry.           *)
(***************************************************************************)
C2_NoSetGeometryAfterUnmount == [][~mounted => geometry' = geometry]_vars

(***************************************************************************)
(* C3.  The scenario: the open ring (0,0), (10,0), (10,10), (0,10) with    *)
(* gridStep = 5.                                                           *)
(***************************************************************************)
Scenario == data = <<PolygonFeature(<<Square>>, "Europe", "")>> /\ gridStep = 5

C4_BufferInvariant ==
  /\ Len(points) % 2 = 0
  /\ Len(colors) = 3 * Len(points)
  /\ Len(geometry.points) % 2 = 0
  /\ Len(geometry.colors) = 3 * Len(geometry.points)

\* a finished build of a list with a Polygon and a MultiPolygon, holding
\* outline and grid segments
C4_Witness ==
  /\ pc = "done"
  /\ \E a, b \in 1..Len(data) : data[a].type = "Polygon" /\ data[b].type = "MultiPolygon"
  /\ CountOutline(geometry.points) > 0
  /\ CountGrid(geometry.points) > 0

(***************************************************************************)
(* C5.  Every grid segment appended has both endpoints on one latitude,    *)
(* which is a multiple of gridStep and lies between the smallest and the   *)
(* largest latitude of the ring being tessellated.                         *)
(***************************************************************************)
LatsOf(ring) == {LatOf(ring[n]) : n \in 1..Len(ring)}
LowestLat(ring) == CHOOSE x \in LatsOf(ring) : \A y \in LatsOf(ring) : x <= y
HighestLat(ring) == CHOOSE x \in LatsOf(ring) : \A y \in LatsOf(ring) : x >= y

GridSegmentAppended ==
  /\ Len(points') = Len(points) + 2
  /\ IsGrid(points'[Len(points')])

C5_GridSegmentsOnSteppedLatitudes ==
  [][GridSegmentAppended =>
       LET a == points'[Len(points') - 1]
           b == points'[Len(points')]
       IN  /\ IsGrid(a)
           /\ a.lat = b.lat
           /\ a.lat % gridStep = 0
           /\ LowestLat(polygon) <= a.lat
           /\ a.lat <= HighestLat(polygon)]_vars

\* a chord has been appended on a line other than 0, for a ring that starts
\* off the grid
C5_Witness ==
  /\ pc = "pairs"
  /\ i = 2
  /\ Len(intersections) >= 2
  /\ lat # 0
  /\ LowestLat(polygon) % gridStep # 0
  /\ IsGrid(points[Len(points)])

(***************************************************************************)
(* C6.  The combined buffer is the concatenation of the rings' buffers in  *)
(* feature, polygon, ring order: every step that adds to the buffer adds   *)
(* one segment of the ring at the current position at the end of the       *)
(* buffer, the position never goes back, and within one ring no outline    *)
(* segment is added once its grid pass has begun.  For the MultiPolygon    *)
(* with the rings Ring3 and Ring2 the buffer is Ring3's two outline        *)
(* segments, Ring3's chord, then Ring2's outline segment.                  *)
(***************************************************************************)
Position == IF pc \in {"rings", "outline", "grid", "pairs"} THEN <<f, m, r>> ELSE <<f, 0, 0>>

LexLeq(p, q) ==
  \/ p[1] < q[1]
  \/ p[1] = q[1] /\ p[2] < q[2]
  \/ p[1] = q[1] /\ p[2] = q[2] /\ p[3] <= q[3]

VertexPoint(v) == latLngToVector3(LatOf(v), FracOfInt(LngOf(v)), OutlineRadius)

OfRing(a, b, ring) ==
  IF IsOutline(a)
  THEN \E e \in 1..Len(ring) - 1 : a = VertexPoint(ring[e]) /\ b = VertexPoint(ring[e + 1])
  ELSE /\ IsGrid(a) /\ IsGrid(b)
       /\ LowestLat(ring) <= a.lat /\ a.lat <= HighestLat(ring)

TwoPolygonsBuffer ==
  << latLngToVector3(2, FracOfInt(0), OutlineRadius),
     latLngToVector3(0 - 1, FracOfInt(1), OutlineRadius),
     latLngToVector3(0 - 1, FracOfInt(1), OutlineRadius),
     latLngToVector3(2, FracOfInt(3), OutlineRadius),
     latLngToVector3(0, <<2, 3>>, GridRadius),
     latLngToVector3(0, <<5, 3>>, GridRadius),
     latLngToVector3(1, FracOfInt(5), OutlineRadius),
     latLngToVector3(1, FracOfInt(6), OutlineRadius) >>

C6_FeatureThenRingOrder ==
  /\ [](data = <<TwoPolygons>> /\ pc = "done" => geometry.points = TwoPolygonsBuffer)
  /\ [][/\ LexLeq(Position, Position')
        /\ pc \in {"grid", "pairs"} => pc' # "outline"
        /\ points' # points =>
             /\ Len(points') = Len(points) + 2
             /\ SubSeq(points', 1, Len(points)) = points
             /\ <<f', m', r'>> = <<f, m, r>>
             /\ OfRing(points'[Len(points') - 1], points'[Len(points')], polygon)
             /\ IsOutline(points'[Len(points')]) <=> pc = "outline"]_vars

C6_Witness ==
  /\ data = <<TwoPolygons>>
  /\ pc = "done"
  /\ Len(geometry.points) = 8

(***************************************************************************)
(* C7.  A continent name outside the fixed seven resolves to the fallback  *)
(* gray, each of the seven to its own colour, and the segments of a        *)
(* feature carry the colour resolved for it: outline at full intensity,    *)
(* chords at 30%.                                                          *)
(***************************************************************************)
ClaimedColor(name) ==
  IF name \in SevenContinents THEN CONTINENT_COLORS[name] ELSE DEFAULT_COLOR

LastSix(buffer) == SubSeq(buffer, Len(buffer) - 5, Len(buffer))

C7_PaletteFallback ==
  pc \in {"rings", "outline", "grid", "pairs"} =>
    LET c == ClaimedColor(ContinentName(feature))
    IN  /\ continentColor = c
        /\ pc = "outline" /\ i > 0 =>
             LastSix(colors) = <<10 * c[1], 10 * c[2], 10 * c[3], 10 * c[1], 10 * c[2], 10 * c[3]>>
        /\ pc = "pairs" /\ i >= 2 /\ i <= Len(intersections) =>
             LastSix(colors) = <<3 * c[1], 3 * c[2], 3 * c[3], 3 * c[1], 3 * c[2], 3 * c[3]>>

(***************************************************************************)
(* C8.  A finished build holds max(ring.length - 1, 0) outline segments    *)
(* per ring; for a single ring they are the pairs of consecutive vertices, *)
(* first to last, with no edge from the last vertex back to the first.     *)
(***************************************************************************)
C8_OutlineSegmentCount ==
  pc = "done" =>
    /\ CountOutline(geometry.points) = 2 * EdgesOfFeatures(data)
    /\ SingleRing =>
         /\ CountOutline(geometry.points) = 2 * RingEdges(TheRing)
         /\ \A e \in 1..Len(TheRing) - 1 :
              /\ geometry.points[2 * e - 1] = VertexPoint(TheRing[e])
              /\ geometry.points[2 * e] = VertexPoint(TheRing[e + 1])

\* an open ring of three vertices has given two segments
C8_Witness ==
  /\ pc = "done"
  /\ SingleRing
  /\ Len(TheRing) = 3
  /\ TheRing[1] # TheRing[3]
  /\ CountOutline(geometry.points) = 4

(***************************************************************************)
(* C9.  A failure of the fetch or of the parse is caught and logged and    *)
(* leaves the geometry absent for good; the geometry goes from absent to   *)
(* present only in the step that ends a build that has visited every       *)
(* feature, with no error logged, and it is then the built buffer.         *)
(***************************************************************************)
C9_FetchFailureNotFatal ==
  /\ [](pc = "caught" => ~geometry.present /\ Len(logged) = 1)
  /\ [](logged # <<>> => pc = "caught")
  /\ [][pc = "caught" => pc' = "caught" /\ geometry' = geometry]_vars
  /\ [][~geometry.present /\ geometry'.present =>
          /\ pc = "forEach" /\ f > Len(data) /\ logged = <<>>
          /\ pc' = "done"
          /\ geometry'.points = points /\ geometry'.colors = colors]_vars

C9_Witness ==
  /\ pc = "caught"
  /\ logged = <<"parse">>
  /\ ~mounted
  /\ ~geometry.present

(***************************************************************************)
(* C10.  The crossing test of the grid pass.                               *)
(***************************************************************************)
EdgesOf(ring) == 1..Len(ring) - 1

\* C10 as claimed: an edge is counted iff one endpoint is strictly below
\* the line and the other is on it or above it.
C10_CrossingAsClaimed ==
  pc = "pairs" =>
    Len(intersections) =
      Cardinality({e \in EdgesOf(polygon) :
        \/ LatOf(polygon[e]) < lat /\ LatOf(polygon[e + 1]) >= lat
        \/ LatOf(polygon[e + 1]) < lat /\ LatOf(polygon[e]) >= lat})

\* C10 as amended: an edge is counted iff one endpoint is on the line or
\* below it and the other is strictly above it, so a vertex on the line
\* goes to the lower side and is not counted twice.
C10_CrossingTest ==
  pc = "pairs" =>
    Len(intersections) =
      Cardinality({e \in EdgesOf(polygon) :
        \/ LatOf(polygon[e]) <= lat /\ LatOf(polygon[e + 1]) > lat
        \/ LatOf(polygon[e + 1]) <= lat /\ LatOf(polygon[e]) > lat})

\* a line through a vertex whose two edges both go up from it: both count
C10_Witness ==
  /\ pc = "pairs"
  /\ Len(polygon) = 3
  /\ LatOf(polygon[2]) = lat
  /\ LatOf(polygon[1]) > lat
  /\ LatOf(polygon[3]) > lat
  /\ Len(intersections) = 2

(***************************************************************************)
(* C11.  On every grid line the crossings are the crossing longitudes of   *)
(* the ring's edges in ascending order; they are paired 0-1, 2-3, ..., so  *)
(* that once the line is done exactly floor(k / 2) chords have been added  *)
(* for its k crossings, each from the smaller to the larger longitude and  *)
(* no chord beginning before the one before it ends; an odd last crossing  *)
(* adds nothing.                                                           *)
(***************************************************************************)
FracLeq(a, b) == ~FracLess(b, a)

\* chords of the current line added so far
ChordsAdded == (IF i <= Len(intersections) THEN i ELSE Len(intersections)) \div 2

CrossingEdges ==
  {e \in EdgesOf(polygon) :
     \/ LatOf(polygon[e]) <= lat /\ LatOf(polygon[e + 1]) > lat
     \/ LatOf(polygon[e + 1]) <= lat /\ LatOf(polygon[e]) > lat}

C11_SortedPairing ==
  pc = "pairs" =>
    LET k == Len(intersections)
        base == Len(points) - 2 * ChordsAdded
    IN  /\ \A a, b \in 1..k : a < b => FracLeq(intersections[a], intersections[b])
        /\ {intersections[n] : n \in 1..k} =
             {Interpolate(LngOf(polygon[e]), LatOf(polygon[e]),
                          LngOf(polygon[e + 1]), LatOf(polygon[e + 1]), lat) :
                e \in CrossingEdges}
        /\ i % 2 = 0
        /\ i <= k + 1
        /\ base >= 0
        /\ \A j \in 1..ChordsAdded :
             /\ points[base + 2 * j - 1] = latLngToVector3(lat, intersections[2 * j - 1], GridRadius)
             /\ points[base + 2 * j] = latLngToVector3(lat, intersections[2 * j], GridRadius)
             /\ FracLeq(points[base + 2 * j - 1].lng, points[base + 2 * j].lng)
             /\ j > 1 => FracLeq(points[base + 2 * j - 2].lng, points[base + 2 * j - 1].lng)
        /\ k > 0 /\ base > 0 => ~(IsGrid(points[base]) /\ points[base].lat = lat)

\* a line with three crossings, found in descending order, is done: one
\* chord was added and the third crossing dropped
C11_Witness ==
  /\ pc = "pairs"
  /\ Len(intersections) = 3
  /\ i = 4
  /\ FracLess(intersections[1], intersections[2])
  /\ FracLess(intersections[2], intersections[3])
  /\ IsGrid(points[Len(points)])
  /\ points[Len(points)].lng = intersections[2]

(***************************************************************************)
(* The globe scene: per-frame updates and the intro camera                 *)
(***************************************************************************)
MaxClock == 4
MaxFrames == 3

\* a / b rounded towards zero, and the product of two values in millionths
\* (of their thousandths, to stay within 32 bits)
TruncDiv(a, b) == IF a >= 0 THEN a \div b ELSE 0 - ((0 - a) \div b)
Mul(a, b) == TruncDiv(a, 1000) * TruncDiv(b, 1000)

\* Math.sin(t * 10), Math.cos(t * 8), Math.sin(t * 2) in millionths, for
\* t = 0, 1, ..., 8 seconds
SinTimes10(t) == (<<0, 0 - 544021, 912945, 0 - 988032, 745113, 0 - 262375, 0 - 304811, 773891, 0 - 993889>>)[t + 1]
CosTimes8(t) == (<<1000000, 0 - 145500, 0 - 957659, 424179, 834223, 0 - 666938, 0 - 640144, 853220, 391857>>)[t + 1]
SinTimes2(t) == (<<0, 909297, 0 - 756802, 0 - 279415, 989358, 0 - 544021, 0 - 536573, 990607, 0 - 287903>>)[t + 1]

\* lines 435-437
isIntro(t) == t < 3
introFactor(t) == IF isIntro(t) THEN ((3 - t) * (3 - t) * 1000000) \div 9 ELSE 0

\* line 452
pulse(t) == (SinTimes2(t) + 1000000) \div 2

\* the values the frame callback of CyberGlobe reads and writes
Scene ==
  [groupRotation |-> groupRotation, emissiveIntensity |-> emissiveIntensity,
   ringRotation |-> ringRotation, glowScale |-> glowScale]

\* a slip: the data ring's angle is advanced instead of set
FrameUpdate_RingAccumulates(sc, t, act) ==
  [groupRotation |->
     IF isIntro(t)
     THEN [x |-> TruncDiv(Mul(SinTimes10(t), introFactor(t)), 5),
           y |-> sc.groupRotation.y + introFactor(t) \div 2,
           z |-> TruncDiv(Mul(CosTimes8(t), introFactor(t)), 10)]
     ELSE [x |-> TruncDiv(sc.groupRotation.x * 95, 100),
           y |-> sc.groupRotation.y + (IF act THEN 300 ELSE 1600),
           z |-> TruncDiv(sc.groupRotation.z * 95, 100)],
   emissiveIntensity |->
     (IF isIntro(t) THEN 5 * introFactor(t) ELSE 1200000) + (pulse(t) * 3) \div 2,
   ringRotation |->
     [x |-> 1570796, z |-> sc.ringRotation.z + (IF isIntro(t) THEN 2000000 ELSE 200000)],
   glowScale |-> 1050000 + (pulse(t) * 15) \div 1000]

\* lines 433-466: the frame callback of CyberGlobe at clock time t
FrameUpdate(sc, t, act) ==
  [groupRotation |->
     IF isIntro(t)
     THEN [x |-> TruncDiv(Mul(SinTimes10(t), introFactor(t)), 5),
           y |-> sc.groupRotation.y + introFactor(t) \div 2,
           z |-> TruncDiv(Mul(CosTimes8(t), introFactor(t)), 10)]
     ELSE [x |-> TruncDiv(sc.groupRotation.x * 95, 100),
           y |-> sc.groupRotation.y + (IF act THEN 300 ELSE 1600),
           z |-> TruncDiv(sc.groupRotation.z * 95, 100)],
   emissiveIntensity |->
     (IF isIntro(t) THEN 5 * introFactor(t) ELSE 1200000) + (pulse(t) * 3) \div 2,
   ringRotation |->
     [x |-> 1570796, z |-> t * (IF isIntro(t) THEN 2000000 ELSE 200000)],
   glowScale |-> 1050000 + (pulse(t) * 15) \div 1000]

introVars == <<cameraZ, introFinished, introDone, introEndCalls>>
props == <<active, selectedPos>>

\* the clock runs on between two reads
Tick ==
  /\ clock < MaxClock
  /\ clock' = clock + 1
  /\ UNCHANGED <<outlines, zoomControls, props, groupRotation, emissiveIntensity,
                 ringRotation, glowScale, introVars, frames>>

\* App.tsx line 76: the view is toggled
Toggle ==
  /\ active' = ~active
  /\ UNCHANGED <<outlines, zoomControls, clock, selectedPos, groupRotation,
                 emissiveIntensity, ringRotation, glowScale, introVars, frames>>

\* App.tsx lines 27-29: a location is selected on the map
SelectLocation ==
  /\ selectedPos' = TRUE
  /\ UNCHANGED <<outlines, zoomControls, clock, active, groupRotation,
                 emissiveIntensity, ringRotation, glowScale, introVars, frames>>

\* lines 433-466: one run of CyberGlobe's frame callback
CyberGlobeFrame ==
  /\ frames < MaxFrames
  /\ LET next == FrameUpdate(Scene, clock, active)
     IN  /\ groupRotation' = next.groupRotation
         /\ emissiveIntensity' = next.emissiveIntensity
         /\ ringRotation' = next.ringRotation
         /\ glowScale' = next.glowScale
  /\ frames' = frames + 1
  /\ UNCHANGED <<outlines, zoomControls, clock, props, introVars>>

\* a slip: the signal is not latched
IntroCameraFrame_NoLatch ==
  /\ IF clock < 3
     THEN /\ cameraZ' = 20000000 +
               TruncDiv(((IF active THEN 5800000 ELSE 8500000) - 20000000)
                          * (27 - (3 - clock) * (3 - clock) * (3 - clock)), 27)
          /\ UNCHANGED <<introFinished, introDone, introEndCalls>>
     ELSE /\ introFinished' = TRUE
          /\ introDone' = TRUE
          /\ introEndCalls' = introEndCalls + 1
          /\ UNCHANGED cameraZ
  /\ UNCHANGED <<outlines, zoomControls, clock, props, groupRotation,
                 emissiveIntensity, ringRotation, glowScale, frames>>

\* lines 530-542: one run of IntroCamera's frame callback; onIntroEnd is
\* () => setIntroDone(true) (line 558)
IntroCameraFrame ==
  /\ IF clock < 3
     THEN /\ cameraZ' = 20000000 +
               TruncDiv(((IF active THEN 5800000 ELSE 8500000) - 20000000)
                          * (27 - (3 - clock) * (3 - clock) * (3 - clock)), 27)
          /\ UNCHANGED <<introFinished, introDone, introEndCalls>>
     ELSE IF ~introFinished
     THEN /\ introFinished' = TRUE
          /\ introDone' = TRUE
          /\ introEndCalls' = introEndCalls + 1
          /\ UNCHANGED cameraZ
     ELSE UNCHANGED <<cameraZ, introFinished, introDone, introEndCalls>>
  /\ UNCHANGED <<outlines, zoomControls, clock, props, groupRotation,
                 emissiveIntensity, ringRotation, glowScale, frames>>

\* line 569
autoRotate == introDone /\ ~active /\ ~selectedPos

InitGlobe ==
  /\ data = <<>>
  /\ gridStep = 2
  /\ OutlinesMounted
  /\ SceneMounted
  /\ ZoomMounted

NextGlobe == Tick \/ Toggle \/ SelectLocation \/ CyberGlobeFrame \/ IntroCameraFrame

SpecGlobe == InitGlobe /\ [][NextGlobe]_vars

(***************************************************************************)
(* C12.  Per-frame updates of the scene at one clock time.                 *)
(***************************************************************************)
CyberGlobeFrameRan == frames' = frames + 1

\* C12 as claimed: applying the frame update again at the same clock time
\* and with the same active flag changes no transform value.
C12_FrameUpdateIdempotent ==
  [][CyberGlobeFrameRan => FrameUpdate(Scene', clock, active) = Scene']_vars

\* C12 as amended: applying the frame update again at the same clock time
\* and with the same active flag leaves the ring rotation, the glow scale
\* and the emissive intensity as they are, and during the intro the group's
\* rotation x and z too; the group's rotation y is advanced by every
\* application, so two applications leave it further than one.
C12_FrameUpdateAbsoluteParts ==
  [][CyberGlobeFrameRan =>
       LET again == FrameUpdate(Scene', clock, active)
       IN  /\ again.ringRotation = ringRotation'
           /\ again.glowScale = glowScale'
           /\ again.emissiveIntensity = emissiveIntensity'
           /\ isIntro(clock) =>
                /\ again.groupRotation.x = groupRotation'.x
                /\ again.groupRotation.z = groupRotation'.z
           /\ again.groupRotation.y > groupRotation'.y
           /\ groupRotation'.y > groupRotation.y]_vars

\* the frame callback has run twice at clock time 0
C12_Witness ==
  /\ frames = 2
  /\ clock = 0
  /\ groupRotation.y = 1000000
  /\ ringRotation.z = 0

(***************************************************************************)
(* C13.  onIntroEnd is called at most once, and never while the clock is   *)
(* below 3.0 s; introDone, once true, stays true; autorotation is on only  *)
(* after the call, and neither while the globe is active nor while a       *)
(* position is selected.                                                   *)
(***************************************************************************)
C13_IntroSignalOnce ==
  /\ [](introEndCalls <= 1)
  /\ [](introDone <=> introEndCalls = 1)
  /\ [](autoRotate => introEndCalls = 1 /\ ~active /\ ~selectedPos)
  /\ [][introEndCalls' # introEndCalls => clock >= 3]_vars
  /\ [][introDone => introDone']_vars

\* the signal was given, later frames have run, and the globe autorotates
C13_Witness ==
  /\ introEndCalls = 1
  /\ clock > 3
  /\ frames >= 2
  /\ autoRotate


\* ---------------------------------------------------------------------
\* The map's zoom buttons (CustomZoomControls, lines 104-144).
\* Time is counted in steps of 250 ms, zoom levels in thousandths.

MaxClicks == 3
MaxNow == 6

\* line 112: 1000 ms, in time steps
duration == 4
\* line 186: minZoom={1.5}
minZoom == 1500
\* lines 129 and 137: the limits the buttons clamp their target to
ZoomInLimit == 12000
ZoomOutLimit == 1500
\* lines 129 and 137: one level per click
ZoomStep == 1000

\* The zoom levels the map can be at when a button is clicked first: the
\* mounted level (line 185), or a level the wheel has taken it to
\* (line 187, zoomSnap={0} of line 189 allows fractional levels).
StartZooms == {2000, 2300, 11500}

Min(a, b) == IF a < b THEN a ELSE b
Max(a, b) == IF a > b THEN a ELSE b
Pow5(x) == x * x * x * x * x

\* lines 94-96, of x = p / duration, as <<numerator, denominator>>:
\*   x < 0.5 ? 16 x^5 : 1 - (-2x + 2)^5 / 2
easeInOutQuint(p) ==
  IF 2 * p < duration
  THEN <<16 * Pow5(p), Pow5(duration)>>
  ELSE <<Pow5(duration) - 16 * Pow5(duration - p), Pow5(duration)>>

\* map.setZoom(z, {animate: false}): the map keeps the level, not below
\* minZoom; no maxZoom is given (lines 183-192)
setZoom(z) == Max(z, minZoom)

\* cancelAnimationFrame(h): the callback with handle h, if one is still
\* held, is dropped
cancelAnimationFrame(h) == {cb \in pending : cb.handle # h}

\* requestAnimationFrame(animate), for the closure of one performSmoothZoom:
\* the callback held, to be run by a later frame
requestAnimationFrame(startZoom, startTime, targetZoom, chain) ==
  [handle |-> nextHandle, startZoom |-> startZoom, startTime |-> startTime,
   targetZoom |-> targetZoom, chain |-> chain, requested |-> now]


\* performSmoothZoom without line 109: the previous frame stays requested
performSmoothZoom_NoCancel(targetZoom) ==
  /\ clicks < MaxClicks
  /\ clicks' = clicks + 1
  /\ pending' = pending \cup
       {requestAnimationFrame(zoom, now, targetZoom, clicks + 1)}
  /\ animationRef' = nextHandle
  /\ nextHandle' = nextHandle + 1
  /\ UNCHANGED <<outlines, scene, zoom, now, lastRun>>

\* lines 108-112 and 121: cancel the frame the ref names, capture startZoom
\* and startTime, request the first frame
performSmoothZoom(targetZoom) ==
  /\ clicks < MaxClicks
  /\ clicks' = clicks + 1
  /\ pending' = (IF animationRef # 0 THEN cancelAnimationFrame(animationRef)
                                     ELSE pending) \cup
       {requestAnimationFrame(zoom, now, targetZoom, clicks + 1)}
  /\ animationRef' = nextHandle
  /\ nextHandle' = nextHandle + 1
  /\ UNCHANGED <<outlines, scene, zoom, now, lastRun>>

\* line 129: the "+" button
ZoomIn == performSmoothZoom(Min(zoom + ZoomStep, ZoomInLimit))

\* line 137: the "-" button
ZoomOut == performSmoothZoom(Max(zoom - ZoomStep, ZoomOutLimit))

\* lines 113-120: a frame runs a callback it holds. The frame comes after
\* the request, and its timestamp is the time it runs at.
animate(cb) ==
  /\ cb \in pending
  /\ cb.requested < now
  /\ LET elapsed == now - cb.startTime
         progress == Min(elapsed, duration)
         easedProgress == easeInOutQuint(progress)
         nextZoom == cb.startZoom
                       + TruncDiv((cb.targetZoom - cb.startZoom) * easedProgress[1],
                                  easedProgress[2])
     IN /\ zoom' = setZoom(nextZoom)
        /\ lastRun' = [chain |-> cb.chain, targetZoom |-> cb.targetZoom,
                       progress |-> progress]
        /\ IF progress < duration
           THEN /\ pending' = (pending \ {cb}) \cup
                     {requestAnimationFrame(cb.startZoom, cb.startTime,
                                            cb.targetZoom, cb.chain)}
                /\ animationRef' = nextHandle
                /\ nextHandle' = nextHandle + 1
           ELSE /\ pending' = pending \ {cb}
                /\ UNCHANGED <<animationRef, nextHandle>>
  /\ UNCHANGED <<outlines, scene, now, clicks>>

AnimationFrame == \E cb \in pending : animate(cb)

\* 250 ms pass
TimePasses ==
  /\ now < MaxNow
  /\ now' = now + 1
  /\ UNCHANGED <<outlines, scene, zoom, animationRef, pending, nextHandle,
                 clicks, lastRun>>

InitZoom ==
  /\ data = <<>>
  /\ gridStep = 2
  /\ OutlinesMounted
  /\ SceneMounted
  /\ zoom \in StartZooms
  /\ ZoomControlsMounted

NextZoom == ZoomIn \/ ZoomOut \/ AnimationFrame \/ TimePasses

SpecZoom == InitZoom /\ [][NextZoom]_vars

\* ---------------------------------------------------------------------
\* C14: whatever the order of clicks and frames, at most one callback is
\* requested, and it is the one of the latest performSmoothZoom, named by
\* the ref; the callback a frame runs belongs to the latest
\* performSmoothZoom, so a superseded animation writes the zoom no more; a
\* run with progress 1 sets the zoom to the target, which lies in
\* [1.5, 12], and requests no frame.

animateRan == clicks' = clicks /\ \E cb \in pending : cb \notin pending'

====
